---- MODULE Spec2Model ----
(***************************************************************************)
(* The plugin-management components of AgentOS-Plugins as state machines:  *)
(*   PluginBrowser (src/unnamed/part_000, lines 568-870), variables pb_*   *)
(*   PluginGrid    (src/components/text.tsx, lines 163-355), variables pg_*  *)
(*   PluginDetail  (src/unnamed/part_000, lines 950-1116), variables pd_*  *)
(* A React state cell is a variable; an event handler is one action, run   *)
(* against the state of the render it was created in; an async handler is  *)
(* one action up to its await and one action for each way the awaited call *)
(* settles, and keeps the values its closure captured at the call.         *)
(***************************************************************************)
EXTENDS Integers, Sequences, FiniteSets, Bags, TLC

\* ---------------------------------------------------------------- bounds
MaxPlugins == 2      \* plugins the list request may return
MaxCalls == 2        \* enable/disable writes in flight at one time

\* ---------------------------------------------------------------- values
Null == "<null>"     \* JavaScript null (string | null cells)

IdPool == <<"p1", "p2", "p3", "p4">>
Ids == {IdPool[i] : i \in 1..MaxPlugins}

\* A name is a sequence of characters; a character has a letter and a case.
Chars == {"a", "A", "b", "B"}
Letter(c) == IF c \in {"a", "A"} THEN 1 ELSE 2
IsUpper(c) == c \in {"A", "B"}
\* UTF-16 code unit order: upper case letters precede lower case letters.
CodeUnit(c) == CASE c = "A" -> 65 [] c = "B" -> 66 [] c = "a" -> 97 [] OTHER -> 98

\* The names each plugin of the pool may carry in a list response, and the
\* one it carries where the names play no part.
NameChoices ==
  <<{<<"b">>, <<"B">>}, {<<"a">>, <<"B">>}, {<<"A", "b">>, <<"a", "B">>}, {<<"b">>}>>
NameOf == <<<<"b">>, <<"a">>, <<"A", "b">>, <<"B">>>>

\* interface Plugin; description, operations and utilities are never written
\* and never read by a handler, so a record carries id, name and enabled.
Plugin(id, name, enabled) == [id |-> id, name |-> name, enabled |-> enabled]
NoPlugin == Plugin(Null, <<>>, FALSE)      \* detailPlugin = null

RECURSIVE SeqsOver(_, _)
\* every sequence of plugin records whose ids are exactly the pool indexes in
\* S, the plugin of index i named from names[i]
SeqsOver(S, names) ==
  IF S = {} THEN {<<>>}
  ELSE UNION {{<<Plugin(IdPool[i], n, e)>> \o rest :
                 n \in names[i], e \in BOOLEAN, rest \in SeqsOver(S \ {i}, names)} :
              i \in S}

\* The list bodies of the server: every order, every name choice; and those
\* that come in pool order with the one name of each plugin.
AllLists == UNION {SeqsOver(S, NameChoices) : S \in SUBSET (1..MaxPlugins)}
RECURSIVE InPoolOrder(_)
InPoolOrder(S) ==
  IF S = {} THEN {<<>>}
  ELSE LET i == CHOOSE m \in S : \A k \in S : m <= k
       IN {<<Plugin(IdPool[i], NameOf[i], e)>> \o rest :
             e \in BOOLEAN, rest \in InPoolOrder(S \ {i})}
PlainLists == UNION {InPoolOrder(S) : S \in SUBSET (1..MaxPlugins)}

ViewModes == {"icons", "list", "details"}
Keys == {"ArrowRight", "ArrowLeft", "ArrowDown", "ArrowUp", "Home", "End",
         "Enter", "Escape", "other"}

\* What the list request can come back with: fetch rejects (a transport
\* error), a non-ok status, or an ok status whose body has or lacks `plugins`.
Reject(msg) == [kind |-> "reject", text |-> msg, hasPlugins |-> FALSE, plugins |-> <<>>]
Status(txt) == [kind |-> "status", text |-> txt, hasPlugins |-> FALSE, plugins |-> <<>>]
Body(has, ps) == [kind |-> "body", text |-> "", hasPlugins |-> has, plugins |-> ps]
Failures == {Reject("Failed to fetch"), Status(""), Status("Not Found")}
AllResponses == Failures \cup {Body(FALSE, <<>>)} \cup {Body(TRUE, ps) : ps \in AllLists}
PlainResponses == Failures \cup {Body(FALSE, <<>>)} \cup {Body(TRUE, ps) : ps \in PlainLists}

\* ------------------------------------------------------- pure functions
Min(a, b) == IF a < b THEN a ELSE b
Max(a, b) == IF a > b THEN a ELSE b

\* Truthiness of a string | null cell: null and "" are falsy.
Truthy(s) == s # Null /\ s # ""

RECURSIVE PrimaryCmp(_, _)
\* first level of the collation: the letters alone, a prefix sorting first
PrimaryCmp(a, b) ==
  IF a = <<>> /\ b = <<>> THEN 0
  ELSE IF a = <<>> THEN -1
  ELSE IF b = <<>> THEN 1
  ELSE IF Letter(Head(a)) < Letter(Head(b)) THEN -1
  ELSE IF Letter(Head(a)) > Letter(Head(b)) THEN 1
  ELSE PrimaryCmp(Tail(a), Tail(b))

RECURSIVE CaseCmp(_, _)
\* last level of the collation, for equal letters: lower case before upper
CaseCmp(a, b) ==
  IF a = <<>> \/ b = <<>> THEN 0
  ELSE IF IsUpper(Head(a)) = IsUpper(Head(b)) THEN CaseCmp(Tail(a), Tail(b))
  ELSE IF IsUpper(Head(b)) THEN -1 ELSE 1

RECURSIVE CodeUnitCmp(_, _)
\* comparison by code units, as < on strings does
CodeUnitCmp(a, b) ==
  IF a = <<>> /\ b = <<>> THEN 0
  ELSE IF a = <<>> THEN -1
  ELSE IF b = <<>> THEN 1
  ELSE IF CodeUnit(Head(a)) < CodeUnit(Head(b)) THEN -1
  ELSE IF CodeUnit(Head(a)) > CodeUnit(Head(b)) THEN 1
  ELSE CodeUnitCmp(Tail(a), Tail(b))

\* a.name.localeCompare(b.name) in the default collation
LocaleCompare(a, b) ==
  IF PrimaryCmp(a, b) # 0 THEN PrimaryCmp(a, b) ELSE CaseCmp(a, b)

RECURSIVE InsertSorted(_, _)
\* x placed behind every element that does not compare greater (stable)
InsertSorted(x, s) ==
  IF s = <<>> THEN <<x>>
  ELSE IF LocaleCompare(Head(s).name, x.name) <= 0
       THEN <<Head(s)>> \o InsertSorted(x, Tail(s))
       ELSE <<x>> \o s

RECURSIVE SortByName(_)
\* [...data].sort((a, b) => a.name.localeCompare(b.name)); Array.sort is stable
SortByName(data) ==
  IF data = <<>> THEN <<>>
  ELSE InsertSorted(data[Len(data)], SortByName(SubSeq(data, 1, Len(data) - 1)))

\* a fetchPlugins that throws when the body has no `plugins` field
FetchPluginsStrict(resp) ==
  IF resp.kind = "reject" THEN [ok |-> FALSE, value |-> <<>>, message |-> resp.text]
  ELSE IF resp.kind = "status"
       THEN [ok |-> FALSE, value |-> <<>>,
             message |-> "Failed to fetch plugins: " \o resp.text]
  ELSE IF ~resp.hasPlugins
       THEN [ok |-> FALSE, value |-> <<>>, message |-> "plugins is not iterable"]
  ELSE [ok |-> TRUE, value |-> resp.plugins, message |-> ""]

\* fetchPlugins: the value it resolves with, or the message it throws
FetchPlugins(resp) ==
  IF resp.kind = "reject" THEN [ok |-> FALSE, value |-> <<>>, message |-> resp.text]
  ELSE IF resp.kind = "status"
       THEN [ok |-> FALSE, value |-> <<>>,
             message |-> "Failed to fetch plugins: " \o resp.text]
  ELSE [ok |-> TRUE, value |-> IF resp.hasPlugins THEN resp.plugins ELSE <<>>,
        message |-> ""]

\* setPluginEnabled: the action name of the write request
ActionName(enabled) == IF enabled THEN "enable_plugin" ELSE "disable_plugin"

\* plugins.findIndex(p => p.id === id), 1-based; 0 for -1
FindIndex(ps, id) ==
  IF \E i \in 1..Len(ps) : ps[i].id = id
  THEN CHOOSE i \in 1..Len(ps) : ps[i].id = id /\ \A j \in 1..(i - 1) : ps[j].id # id
  ELSE 0

IdsOf(ps) == [i \in 1..Len(ps) |-> ps[i].id]


\* ======================================================= PluginBrowser
VARIABLES
  pb_plugins,       \* useState<Plugin[]>([])
  pb_loading,       \* useState(true)
  pb_error,         \* useState<string | null>(null)
  pb_selectedId,    \* useState<string | null>(null)
  pb_viewMode,      \* useState<ViewMode>(initialView)
  pb_iconErrors,    \* useState<Set<string>>(new Set())
  pb_updating,      \* useState<string | null>(null)
  pb_detailPlugin,  \* useState<Plugin | null>(null)
  pb_cancelled,     \* `cancelled` of the load effect's closure
  pb_mounted,       \* the component is mounted (its handlers can be invoked)
  pb_fetch,         \* the list request: "pending", "resolved" or "rejected"
  pb_loads,         \* list requests issued in this activation
  pb_calls,         \* the bag of handleToggle invocations awaiting their write
  pb_last,          \* the invocation the last step settled and how, NoSettle otherwise
  pb_opened         \* the open events the last step dispatched

pb_state == <<pb_plugins, pb_loading, pb_error, pb_selectedId, pb_viewMode,
              pb_iconErrors, pb_updating, pb_detailPlugin>>
pb_vars == <<pb_state, pb_cancelled, pb_mounted, pb_fetch, pb_loads, pb_calls,
             pb_last, pb_opened>>

\* One invocation of handleToggle: the plugin it was called with, the value it
\* writes, and the outcome of its test detailPlugin?.id === plugin.id, whose
\* operands are both fixed at the call (detailPlugin is the closure's).
Call(plugin, detailId) ==
  [plugin |-> plugin, newEnabled |-> ~plugin.enabled, refresh |-> (detailId = plugin.id)]

NoSettle == [call |-> Call(NoPlugin, Null), status |-> "none"]
Settled(c, status) == [call |-> c, status |-> status]

PBInit ==
  /\ pb_plugins = <<>>
  /\ pb_loading = TRUE
  /\ pb_error = Null
  /\ pb_selectedId = Null
  /\ pb_viewMode \in ViewModes
  /\ pb_iconErrors = {}
  /\ pb_updating = Null
  /\ pb_detailPlugin = NoPlugin
  /\ pb_cancelled = FALSE
  /\ pb_mounted = TRUE
  /\ pb_fetch = "pending"
  /\ pb_loads = 1
  /\ pb_calls = EmptyBag
  /\ pb_last = NoSettle
  /\ pb_opened = <<>>

\* PluginBrowser is not part of the page: nothing of it runs.
PBIdle ==
  /\ pb_plugins = <<>>
  /\ pb_loading = TRUE
  /\ pb_error = Null
  /\ pb_selectedId = Null
  /\ pb_viewMode = "icons"
  /\ pb_iconErrors = {}
  /\ pb_updating = Null
  /\ pb_detailPlugin = NoPlugin
  /\ pb_cancelled = FALSE
  /\ pb_mounted = FALSE
  /\ pb_fetch = "idle"
  /\ pb_loads = 0
  /\ pb_calls = EmptyBag
  /\ pb_last = NoSettle
  /\ pb_opened = <<>>

\* The view the render function returns (the early returns of the render).
PBView ==
  IF pb_loading THEN "loading"
  ELSE IF Truthy(pb_error) THEN "errored"
  ELSE IF Len(pb_plugins) = 0 THEN "empty"
  ELSE "ready"

\* The toolbar, the three views and the key handler exist only in the last
\* branch of the render, and only while the component is mounted.
PBInteractive == pb_mounted /\ PBView = "ready"

\* ---- the load effect
\* a then-handler that never leaves the loading state
PBLoadThenStuck(data) ==
  IF pb_cancelled THEN UNCHANGED <<pb_plugins, pb_loading>>
  ELSE /\ pb_plugins' = SortByName(data)
       /\ pb_loading' = TRUE

\* .then(data => { if (!cancelled) { setPlugins(sorted); setLoading(false) } })
PBLoadThen(data) ==
  IF pb_cancelled THEN UNCHANGED <<pb_plugins, pb_loading>>
  ELSE /\ pb_plugins' = SortByName(data)
       /\ pb_loading' = FALSE

\* a catch-handler that leaves loading without recording the message
PBLoadCatchSilent(message) ==
  IF pb_cancelled THEN UNCHANGED <<pb_error, pb_loading>>
  ELSE /\ pb_error' = pb_error
       /\ pb_loading' = FALSE

\* .catch(err => { if (!cancelled) { setError(err.message); setLoading(false) } })
PBLoadCatch(message) ==
  IF pb_cancelled THEN UNCHANGED <<pb_error, pb_loading>>
  ELSE /\ pb_error' = message
       /\ pb_loading' = FALSE

PBLoadResolved(resp) ==
  /\ pb_fetch = "pending"
  /\ FetchPlugins(resp).ok
  /\ PBLoadThen(FetchPlugins(resp).value)
  /\ pb_fetch' = "resolved"
  /\ pb_last' = NoSettle
  /\ pb_opened' = <<>>
  /\ UNCHANGED <<pb_error, pb_selectedId, pb_viewMode, pb_iconErrors, pb_updating,
                 pb_detailPlugin, pb_cancelled, pb_mounted, pb_loads, pb_calls>>

PBLoadRejected(resp) ==
  /\ pb_fetch = "pending"
  /\ ~FetchPlugins(resp).ok
  /\ PBLoadCatch(FetchPlugins(resp).message)
  /\ pb_fetch' = "rejected"
  /\ pb_last' = NoSettle
  /\ pb_opened' = <<>>
  /\ UNCHANGED <<pb_plugins, pb_selectedId, pb_viewMode, pb_iconErrors, pb_updating,
                 pb_detailPlugin, pb_cancelled, pb_mounted, pb_loads, pb_calls>>

\* the effect's cleanup, run when the component unmounts: cancelled = true
PBCleanup(cancelled) == TRUE

PBUnmount ==
  /\ pb_mounted
  /\ pb_mounted' = FALSE
  /\ pb_cancelled' = PBCleanup(pb_cancelled)
  /\ pb_last' = NoSettle
  /\ pb_opened' = <<>>
  /\ UNCHANGED <<pb_state, pb_fetch, pb_loads, pb_calls>>

\* ---- handlers without an await
\* a handleIconError that forgets the failures recorded before
PBHandleIconErrorReplace(pluginId) ==
  /\ PBInteractive
  /\ pluginId \in {pb_plugins[i].id : i \in 1..Len(pb_plugins)}
  /\ pluginId \notin pb_iconErrors
  /\ pb_iconErrors' = {pluginId}
  /\ pb_last' = NoSettle
  /\ pb_opened' = <<>>
  /\ UNCHANGED <<pb_plugins, pb_loading, pb_error, pb_selectedId, pb_viewMode,
                 pb_updating, pb_detailPlugin, pb_cancelled, pb_mounted, pb_fetch,
                 pb_loads, pb_calls>>

\* handleIconError, from the onError of an <img> that is rendered
PBHandleIconError(pluginId) ==
  /\ PBInteractive
  /\ pluginId \in {pb_plugins[i].id : i \in 1..Len(pb_plugins)}
  /\ pluginId \notin pb_iconErrors                  \* the <img> is rendered
  /\ pb_iconErrors' = pb_iconErrors \cup {pluginId}
  /\ pb_last' = NoSettle
  /\ pb_opened' = <<>>
  /\ UNCHANGED <<pb_plugins, pb_loading, pb_error, pb_selectedId, pb_viewMode,
                 pb_updating, pb_detailPlugin, pb_cancelled, pb_mounted, pb_fetch,
                 pb_loads, pb_calls>>

\* handleSelect without its setDetailPlugin
PBHandleSelectOnly(i) ==
  /\ PBInteractive
  /\ i \in 1..Len(pb_plugins)
  /\ pb_selectedId' = pb_plugins[i].id
  /\ pb_last' = NoSettle
  /\ pb_opened' = <<>>
  /\ UNCHANGED <<pb_plugins, pb_loading, pb_error, pb_viewMode, pb_iconErrors,
                 pb_updating, pb_detailPlugin, pb_cancelled, pb_mounted, pb_fetch,
                 pb_loads, pb_calls>>

\* handleSelect(plugin), plugin the record of the row that was clicked
PBHandleSelect(i) ==
  /\ PBInteractive
  /\ i \in 1..Len(pb_plugins)
  /\ pb_selectedId' = pb_plugins[i].id
  /\ pb_detailPlugin' = pb_plugins[i]
  /\ pb_last' = NoSettle
  /\ pb_opened' = <<>>
  /\ UNCHANGED <<pb_plugins, pb_loading, pb_error, pb_viewMode, pb_iconErrors,
                 pb_updating, pb_cancelled, pb_mounted, pb_fetch, pb_loads,
                 pb_calls>>

\* detail of the 'agentos:open-window' event
OpenEvent(plugin) == [title |-> plugin.name, pluginId |-> plugin.id]

\* handleOpen: dispatches the event; no state cell is written
DispatchTwice(plugin) == pb_opened' = <<OpenEvent(plugin), OpenEvent(plugin)>>

Dispatch(plugin) == pb_opened' = <<OpenEvent(plugin)>>

PBHandleOpen(i) ==
  /\ PBInteractive
  /\ i \in 1..Len(pb_plugins)
  /\ Dispatch(pb_plugins[i])
  /\ pb_last' = NoSettle
  /\ UNCHANGED <<pb_state, pb_cancelled, pb_mounted, pb_fetch, pb_loads, pb_calls>>

\* a view switch that also drops the selection
PBSetViewModeReset(mode) ==
  /\ PBInteractive
  /\ pb_viewMode' = mode
  /\ pb_selectedId' = Null
  /\ pb_last' = NoSettle
  /\ pb_opened' = <<>>
  /\ UNCHANGED <<pb_plugins, pb_loading, pb_error, pb_iconErrors,
                 pb_updating, pb_detailPlugin, pb_cancelled, pb_mounted, pb_fetch,
                 pb_loads, pb_calls>>

\* onClick of a button of the view switcher: setViewMode(mode)
PBSetViewMode(mode) ==
  /\ PBInteractive
  /\ pb_viewMode' = mode
  /\ pb_last' = NoSettle
  /\ pb_opened' = <<>>
  /\ UNCHANGED <<pb_plugins, pb_loading, pb_error, pb_selectedId, pb_iconErrors,
                 pb_updating, pb_detailPlugin, pb_cancelled, pb_mounted, pb_fetch,
                 pb_loads, pb_calls>>

\* a closeDetail that leaves the panel as it is
CloseDetailKeeps(detail) == detail

\* closeDetail: setDetailPlugin(null)
CloseDetail(detail) == NoPlugin

\* closeDetail, from the panel's Close button
PBCloseDetail ==
  /\ PBInteractive
  /\ pb_detailPlugin # NoPlugin
  /\ pb_detailPlugin' = CloseDetail(pb_detailPlugin)
  /\ pb_last' = NoSettle
  /\ pb_opened' = <<>>
  /\ UNCHANGED <<pb_plugins, pb_loading, pb_error, pb_selectedId, pb_viewMode,
                 pb_iconErrors, pb_updating, pb_cancelled, pb_mounted, pb_fetch,
                 pb_loads, pb_calls>>

\* ---- handleToggle
\* the ids that have a write request in flight
InFlight == {c.plugin.id : c \in BagToSet(pb_calls)}

\* the write requests in flight for one id
WritesFor(id) ==
  BagCardinality([c \in {d \in BagToSet(pb_calls) : d.plugin.id = id} |-> pb_calls[c]])

\* handleToggle up to its await: newEnabled, setUpdating(plugin.id), the request
HandleToggle(plugin) ==
  /\ BagCardinality(pb_calls) < MaxCalls
  /\ pb_updating' = plugin.id
  /\ pb_calls' = pb_calls (+) SetToBag({Call(plugin, pb_detailPlugin.id)})

\* disabled={updating === plugin.id} of the table's checkbox
CheckboxDisabled(plugin) == pb_updating = plugin.id

\* updating={updating === detailPlugin.id} of the panel, disabled={updating}
PanelButtonDisabled(plugin) == pb_updating = plugin.id

\* onChange of a checkbox of the details table: onToggle(plugin)
PBToggleCheckbox(i) ==
  /\ PBInteractive
  /\ pb_viewMode = "details"
  /\ i \in 1..Len(pb_plugins)
  /\ ~CheckboxDisabled(pb_plugins[i])
  /\ HandleToggle(pb_plugins[i])
  /\ pb_last' = NoSettle
  /\ pb_opened' = <<>>
  /\ UNCHANGED <<pb_plugins, pb_loading, pb_error, pb_selectedId, pb_viewMode,
                 pb_iconErrors, pb_detailPlugin, pb_cancelled, pb_mounted, pb_fetch,
                 pb_loads>>

\* onClick of the panel's button: handleToggle(detailPlugin)
PBTogglePanel ==
  /\ PBInteractive
  /\ pb_detailPlugin # NoPlugin
  /\ ~PanelButtonDisabled(pb_detailPlugin)
  /\ HandleToggle(pb_detailPlugin)
  /\ pb_last' = NoSettle
  /\ pb_opened' = <<>>
  /\ UNCHANGED <<pb_plugins, pb_loading, pb_error, pb_selectedId, pb_viewMode,
                 pb_iconErrors, pb_detailPlugin, pb_cancelled, pb_mounted, pb_fetch,
                 pb_loads>>

\* Commit with the id test inverted: every other record is written
CommitOthers(prev, c) ==
  [i \in 1..Len(prev) |->
     IF prev[i].id # c.plugin.id THEN [prev[i] EXCEPT !.enabled = c.newEnabled]
     ELSE prev[i]]

\* Commit without the id test: every record is written
CommitAll(prev, c) ==
  [i \in 1..Len(prev) |-> [prev[i] EXCEPT !.enabled = c.newEnabled]]

\* Commit that puts the written record first
CommitFirst(prev, c) ==
  LET at == {i \in 1..Len(prev) : prev[i].id = c.plugin.id}
      hit == [i \in 1..Len(prev) |-> [prev[i] EXCEPT !.enabled = c.newEnabled]]
  IN SelectSeq(hit, LAMBDA p : p.id = c.plugin.id)
       \o SelectSeq(prev, LAMBDA p : p.id # c.plugin.id)

\* setPlugins(prev => prev.map(p => p.id === plugin.id ? {...p, enabled} : p))
Commit(prev, c) ==
  [i \in 1..Len(prev) |->
     IF prev[i].id = c.plugin.id THEN [prev[i] EXCEPT !.enabled = c.newEnabled]
     ELSE prev[i]]

\* if (detailPlugin?.id === plugin.id) setDetailPlugin({...plugin, enabled})
RefreshDetail(detail, c) ==
  IF c.refresh THEN [c.plugin EXCEPT !.enabled = c.newEnabled]
  ELSE detail

\* a catch block that writes the value all the same
CatchBlockWrites(prev, c) ==
  [i \in 1..Len(prev) |->
     IF prev[i].id = c.plugin.id THEN [prev[i] EXCEPT !.enabled = c.newEnabled]
     ELSE prev[i]]

\* catch (err) { console.error(...) }: the plugin set it leaves
CatchBlock(prev, c) == prev

\* finally { setUpdating(null) }
FinallyBlock(updating, c) == Null

RemoveAt(s, i) == SubSeq(s, 1, i - 1) \o SubSeq(s, i + 1, Len(s))

\* the awaited write resolves: the rest of the try block, then finally
PBWriteResolved(c) ==
  /\ BagIn(c, pb_calls)
  /\ pb_plugins' = Commit(pb_plugins, c)
  /\ pb_detailPlugin' = RefreshDetail(pb_detailPlugin, c)
  /\ pb_updating' = FinallyBlock(pb_updating, c)
  /\ pb_calls' = pb_calls (-) SetToBag({c})
  /\ pb_last' = Settled(c, "ok")
  /\ pb_opened' = <<>>
  /\ UNCHANGED <<pb_loading, pb_error, pb_selectedId, pb_viewMode, pb_iconErrors,
                 pb_cancelled, pb_mounted, pb_fetch, pb_loads>>

\* the awaited write throws (fetch rejects or the status is not ok)
PBWriteRejected(c) ==
  /\ BagIn(c, pb_calls)
  /\ pb_plugins' = CatchBlock(pb_plugins, c)
  /\ pb_updating' = FinallyBlock(pb_updating, c)
  /\ pb_calls' = pb_calls (-) SetToBag({c})
  /\ pb_last' = Settled(c, "failed")
  /\ pb_opened' = <<>>
  /\ UNCHANGED <<pb_loading, pb_error, pb_selectedId, pb_viewMode, pb_iconErrors,
                 pb_detailPlugin, pb_cancelled, pb_mounted, pb_fetch, pb_loads>>

\* ---- handleKeyDown
BrowserColumns == 6

\* const columns = viewMode === 'icons' ? 6 : 1
ColumnsOf(viewMode) == IF viewMode = "icons" THEN BrowserColumns ELSE 1

\* Math.ceil(n / columns)
Rows(n, columns) == (n + columns - 1) \div columns

\* PBNewIndex whose ArrowRight wraps around to the first index
PBNewIndexWrapping(key, idx, n, viewMode) ==
  LET columns == IF viewMode = "icons" THEN 6 ELSE 1
      rows == (n + columns - 1) \div columns
      currentRow == idx \div columns
      currentCol == idx % columns
  IN CASE key = "ArrowRight" ->
            IF viewMode = "icons" THEN (idx + 1) % n ELSE idx
       [] key = "ArrowLeft" ->
            IF viewMode = "icons" THEN Max(idx - 1, 0) ELSE idx
       [] key = "ArrowDown" ->
            IF viewMode = "icons"
            THEN IF currentRow < rows - 1
                 THEN Min((currentRow + 1) * columns + currentCol, n - 1)
                 ELSE idx
            ELSE Min(idx + 1, n - 1)
       [] key = "ArrowUp" ->
            IF viewMode = "icons"
            THEN IF currentRow > 0 THEN (currentRow - 1) * columns + currentCol ELSE idx
            ELSE Max(idx - 1, 0)
       [] key = "Home" -> 0
       [] key = "End" -> n - 1
       [] OTHER -> idx

\* The switch of PluginBrowser.handleKeyDown: newIndex (0-based) for a key it
\* handles, from idx (0-based), the number of plugins and the view mode.
PBNewIndex(key, idx, n, viewMode) ==
  LET columns == ColumnsOf(viewMode)
      rows == Rows(n, columns)
      currentRow == idx \div columns
      currentCol == idx % columns
  IN CASE key = "ArrowRight" ->
            IF viewMode = "icons" THEN Min(idx + 1, n - 1) ELSE idx
       [] key = "ArrowLeft" ->
            IF viewMode = "icons" THEN Max(idx - 1, 0) ELSE idx
       [] key = "ArrowDown" ->
            IF viewMode = "icons"
            THEN IF currentRow < rows - 1
                 THEN Min((currentRow + 1) * columns + currentCol, n - 1)
                 ELSE idx
            ELSE Min(idx + 1, n - 1)
       [] key = "ArrowUp" ->
            IF viewMode = "icons"
            THEN IF currentRow > 0 THEN (currentRow - 1) * columns + currentCol ELSE idx
            ELSE Max(idx - 1, 0)
       [] key = "Home" -> 0
       [] key = "End" -> n - 1
       [] OTHER -> idx

\* plugins[newIndex].id throws a TypeError when newIndex is outside the array:
\* the handler ends there and setSelectedId is not reached.
PBKeyThrows(key) ==
  LET currentIndex == FindIndex(pb_plugins, pb_selectedId) - 1
      idx == IF currentIndex = -1 THEN 0 ELSE currentIndex
  IN /\ Len(pb_plugins) # 0
     /\ key # "other"
     /\ PBNewIndex(key, idx, Len(pb_plugins), pb_viewMode) \notin 0..(Len(pb_plugins) - 1)

PBHandleKeyDown(key) ==
  /\ PBInteractive
  /\ LET currentIndex == FindIndex(pb_plugins, pb_selectedId) - 1
         idx == IF currentIndex = -1 THEN 0 ELSE currentIndex
         newIndex == PBNewIndex(key, idx, Len(pb_plugins), pb_viewMode)
     IN IF Len(pb_plugins) = 0 \/ key = "other"
        THEN pb_opened' = <<>> /\ UNCHANGED <<pb_selectedId, pb_detailPlugin>>
        ELSE /\ IF key = "Enter" /\ currentIndex >= 0
                THEN Dispatch(pb_plugins[currentIndex + 1])
                ELSE pb_opened' = <<>>
             /\ IF key = "Escape" /\ pb_detailPlugin # NoPlugin
                THEN pb_detailPlugin' = CloseDetail(pb_detailPlugin)
                ELSE UNCHANGED pb_detailPlugin
             /\ pb_selectedId' = IF PBKeyThrows(key) THEN pb_selectedId
                                ELSE pb_plugins[newIndex + 1].id
  /\ pb_last' = NoSettle
  /\ UNCHANGED <<pb_plugins, pb_loading, pb_error, pb_viewMode, pb_iconErrors,
                 pb_updating, pb_cancelled, pb_mounted, pb_fetch, pb_loads, pb_calls>>


\* ========================================================== PluginGrid
VARIABLES
  pg_columns,       \* the columns prop (default 6)
  pg_plugins,       \* useState<Plugin[]>([])
  pg_loading,       \* useState(true)
  pg_error,         \* useState<string | null>(null)
  pg_selectedId,    \* useState<string | null>(null)
  pg_iconErrors,    \* useState<Set<string>>(new Set())
  pg_cancelled,     \* `cancelled` of the load effect's closure
  pg_mounted,       \* the component is mounted
  pg_fetch,         \* the list request: "pending", "resolved" or "rejected"
  pg_out            \* the callback props the last step invoked, in order

pg_state == <<pg_plugins, pg_loading, pg_error, pg_selectedId, pg_iconErrors>>
pg_vars == <<pg_columns, pg_state, pg_cancelled, pg_mounted, pg_fetch, pg_out>>

GridColumns == 6
ColumnChoices == {1, 2, GridColumns}

PGInit ==
  /\ pg_columns \in ColumnChoices
  /\ pg_plugins = <<>>
  /\ pg_loading = TRUE
  /\ pg_error = Null
  /\ pg_selectedId = Null
  /\ pg_iconErrors = {}
  /\ pg_cancelled = FALSE
  /\ pg_mounted = TRUE
  /\ pg_fetch = "pending"
  /\ pg_out = <<>>

\* PluginGrid is not part of the page.
PGIdle ==
  /\ pg_columns = GridColumns
  /\ pg_plugins = <<>>
  /\ pg_loading = TRUE
  /\ pg_error = Null
  /\ pg_selectedId = Null
  /\ pg_iconErrors = {}
  /\ pg_cancelled = FALSE
  /\ pg_mounted = FALSE
  /\ pg_fetch = "idle"
  /\ pg_out = <<>>

PGView ==
  IF pg_loading THEN "loading"
  ELSE IF Truthy(pg_error) THEN "errored"
  ELSE IF Len(pg_plugins) = 0 THEN "empty"
  ELSE "ready"

\* .then(data => { if (!cancelled) { setPlugins(sorted); setLoading(false) } })
PGLoadThen(data) ==
  IF pg_cancelled THEN UNCHANGED <<pg_plugins, pg_loading>>
  ELSE /\ pg_plugins' = SortByName(data)
       /\ pg_loading' = FALSE

\* .catch(err => { if (!cancelled) { setError(err.message); setLoading(false) } })
PGLoadCatch(message) ==
  IF pg_cancelled THEN UNCHANGED <<pg_error, pg_loading>>
  ELSE /\ pg_error' = message
       /\ pg_loading' = FALSE

PGLoadResolved(resp) ==
  /\ pg_fetch = "pending"
  /\ FetchPlugins(resp).ok
  /\ PGLoadThen(FetchPlugins(resp).value)
  /\ pg_fetch' = "resolved"
  /\ pg_out' = <<>>
  /\ UNCHANGED <<pg_columns, pg_error, pg_selectedId, pg_iconErrors, pg_cancelled,
                 pg_mounted>>

PGLoadRejected(resp) ==
  /\ pg_fetch = "pending"
  /\ ~FetchPlugins(resp).ok
  /\ PGLoadCatch(FetchPlugins(resp).message)
  /\ pg_fetch' = "rejected"
  /\ pg_out' = <<>>
  /\ UNCHANGED <<pg_columns, pg_plugins, pg_selectedId, pg_iconErrors, pg_cancelled,
                 pg_mounted>>

\* the effect's cleanup: cancelled = true
PGCleanup(cancelled) == TRUE

PGUnmount ==
  /\ pg_mounted
  /\ pg_mounted' = FALSE
  /\ pg_cancelled' = PGCleanup(pg_cancelled)
  /\ pg_out' = <<>>
  /\ UNCHANGED <<pg_columns, pg_state, pg_fetch>>

\* The grid and its key handler exist only in the last branch of the render.
PGInteractive == pg_mounted /\ PGView = "ready"

\* a callback prop invoked with a plugin
Callback(cb, plugin) == [cb |-> cb, id |-> plugin.id]

\* handleIconError, from the onError of an <img> that is rendered
PGHandleIconError(pluginId) ==
  /\ PGInteractive
  /\ pluginId \in {pg_plugins[i].id : i \in 1..Len(pg_plugins)}
  /\ pluginId \notin pg_iconErrors
  /\ pg_iconErrors' = pg_iconErrors \cup {pluginId}
  /\ pg_out' = <<>>
  /\ UNCHANGED <<pg_columns, pg_plugins, pg_loading, pg_error, pg_selectedId,
                 pg_cancelled, pg_mounted, pg_fetch>>

\* a handleClick that reads a property the record does not have
Undefined == "<undefined>"
PGHandleClickUndefined(i) ==
  /\ PGInteractive
  /\ i \in 1..Len(pg_plugins)
  /\ pg_selectedId' = Undefined
  /\ pg_out' = <<Callback("onSelect", pg_plugins[i])>>
  /\ UNCHANGED <<pg_columns, pg_plugins, pg_loading, pg_error, pg_iconErrors,
                 pg_cancelled, pg_mounted, pg_fetch>>

\* handleClick(plugin): setSelectedId(plugin.id); onSelect?.(plugin)
PGHandleClick(i) ==
  /\ PGInteractive
  /\ i \in 1..Len(pg_plugins)
  /\ pg_selectedId' = pg_plugins[i].id
  /\ pg_out' = <<Callback("onSelect", pg_plugins[i])>>
  /\ UNCHANGED <<pg_columns, pg_plugins, pg_loading, pg_error, pg_iconErrors,
                 pg_cancelled, pg_mounted, pg_fetch>>

\* handleDoubleClick(plugin): onOpen?.(plugin)
PGHandleDoubleClick(i) ==
  /\ PGInteractive
  /\ i \in 1..Len(pg_plugins)
  /\ pg_out' = <<Callback("onOpen", pg_plugins[i])>>
  /\ UNCHANGED <<pg_columns, pg_state, pg_cancelled, pg_mounted, pg_fetch>>

\* PGNewIndex whose ArrowDown is not clamped to the last index
PGNewIndexUnclamped(key, idx, n, columns) ==
  LET rows == (n + columns - 1) \div columns
      currentRow == idx \div columns
      currentCol == idx % columns
  IN CASE key = "ArrowRight" -> Min(idx + 1, n - 1)
       [] key = "ArrowLeft" -> Max(idx - 1, 0)
       [] key = "ArrowDown" ->
            IF currentRow < rows - 1 THEN (currentRow + 1) * columns + currentCol ELSE idx
       [] key = "ArrowUp" ->
            IF currentRow > 0 THEN (currentRow - 1) * columns + currentCol ELSE idx
       [] key = "Home" -> 0
       [] key = "End" -> n - 1
       [] OTHER -> idx

\* The switch of PluginGrid.handleKeyDown: newIndex (0-based) for a key it
\* handles, from idx (0-based), the number of plugins and the columns prop.
PGNewIndex(key, idx, n, columns) ==
  LET rows == Rows(n, columns)
      currentRow == idx \div columns
      currentCol == idx % columns
  IN CASE key = "ArrowRight" -> Min(idx + 1, n - 1)
       [] key = "ArrowLeft" -> Max(idx - 1, 0)
       [] key = "ArrowDown" ->
            IF currentRow < rows - 1
            THEN Min((currentRow + 1) * columns + currentCol, n - 1)
            ELSE idx
       [] key = "ArrowUp" ->
            IF currentRow > 0 THEN (currentRow - 1) * columns + currentCol ELSE idx
       [] key = "Home" -> 0
       [] key = "End" -> n - 1
       [] OTHER -> idx

\* the keys the switch of PluginGrid.handleKeyDown has a case for
GridKeys == {"ArrowRight", "ArrowLeft", "ArrowDown", "ArrowUp", "Home", "End", "Enter"}

\* plugins[newIndex].id throws when newIndex is outside the array
PGKeyThrows(key) ==
  LET currentIndex == FindIndex(pg_plugins, pg_selectedId) - 1
      idx == IF currentIndex = -1 THEN 0 ELSE currentIndex
  IN /\ Len(pg_plugins) # 0
     /\ key \in GridKeys
     /\ PGNewIndex(key, idx, Len(pg_plugins), pg_columns) \notin 0..(Len(pg_plugins) - 1)

PGHandleKeyDown(key) ==
  /\ PGInteractive
  /\ LET currentIndex == FindIndex(pg_plugins, pg_selectedId) - 1
         idx == IF currentIndex = -1 THEN 0 ELSE currentIndex
         newIndex == PGNewIndex(key, idx, Len(pg_plugins), pg_columns)
         opened == IF key = "Enter" /\ currentIndex >= 0
                   THEN <<Callback("onOpen", pg_plugins[currentIndex + 1])>>
                   ELSE <<>>
     IN IF Len(pg_plugins) = 0 \/ key \notin GridKeys
        THEN pg_out' = <<>> /\ UNCHANGED pg_selectedId
        ELSE IF PGKeyThrows(key)
        THEN pg_out' = opened /\ UNCHANGED pg_selectedId
        ELSE /\ pg_selectedId' = pg_plugins[newIndex + 1].id
             /\ pg_out' = opened \o <<Callback("onSelect", pg_plugins[newIndex + 1])>>
  /\ UNCHANGED <<pg_columns, pg_plugins, pg_loading, pg_error, pg_iconErrors,
                 pg_cancelled, pg_mounted, pg_fetch>>

\* ======================================================== PluginDetail
VARIABLES
  pd_pluginId,      \* the pluginId prop
  pd_plugin,        \* useState<Plugin | null>(null)
  pd_loading,       \* useState(true)
  pd_error,         \* useState<string | null>(null)
  pd_updating,      \* useState(false)
  pd_iconError,     \* useState(false)
  pd_mounted,       \* the component is mounted
  pd_fetches,       \* the list requests in flight, in issue order
  pd_calls          \* the handleToggle invocations awaiting their write

pd_state == <<pd_plugin, pd_loading, pd_error, pd_updating, pd_iconError>>
pd_vars == <<pd_pluginId, pd_state, pd_mounted, pd_fetches, pd_calls>>

MaxFetches == 2     \* list requests of PluginDetail in flight at one time

\* an id no list holds, and the empty id
UnknownId == "p0"
DetailIds == Ids \cup {UnknownId, ""}

\* A list request of one run of the effect: the pluginId it asks for, the
\* `cancelled` of that run's closure, and whether that run has been cleaned up.
Fetch(pluginId) == [pluginId |-> pluginId, cancelled |-> FALSE, stale |-> FALSE]

\* The effect body for a pluginId: the cells it sets and the request it issues.
\*   if (!pluginId) { setError('No plugin specified'); setLoading(false); return }
\*   setLoading(true); setError(null); setIconError(false); fetchPlugin(pluginId)...
PDEffect(pluginId, fetches) ==
  IF pluginId = ""
  THEN /\ pd_error' = "No plugin specified"
       /\ pd_loading' = FALSE
       /\ pd_fetches' = fetches
       /\ UNCHANGED pd_iconError
  ELSE /\ pd_loading' = TRUE
       /\ pd_error' = Null
       /\ pd_iconError' = FALSE
       /\ pd_fetches' = Append(fetches, Fetch(pluginId))

PDInit ==
  /\ pd_pluginId \in DetailIds
  /\ pd_plugin = NoPlugin
  /\ pd_updating = FALSE
  /\ pd_iconError = FALSE
  /\ pd_mounted = TRUE
  /\ pd_loading = (pd_pluginId # "")
  /\ pd_error = IF pd_pluginId = "" THEN "No plugin specified" ELSE Null
  /\ pd_fetches = IF pd_pluginId = "" THEN <<>> ELSE <<Fetch(pd_pluginId)>>
  /\ pd_calls = <<>>

\* PluginDetail is not part of the page.
PDIdle ==
  /\ pd_pluginId = ""
  /\ pd_plugin = NoPlugin
  /\ pd_updating = FALSE
  /\ pd_iconError = FALSE
  /\ pd_mounted = FALSE
  /\ pd_loading = TRUE
  /\ pd_error = Null
  /\ pd_fetches = <<>>
  /\ pd_calls = <<>>

\* a cleanup that sets no flag
PDCleanupNone(fetches) == fetches

\* return () => { cancelled = true }: the cleanup of the run that is current
PDCleanup(fetches) ==
  [i \in 1..Len(fetches) |-> [fetches[i] EXCEPT !.cancelled = TRUE]]

\* every request in flight (list requests, writes) now belongs to a run of
\* the effect that has been cleaned up
Superseded(fetches) ==
  [i \in 1..Len(fetches) |-> [fetches[i] EXCEPT !.stale = TRUE]]

\* the pluginId prop changes: the cleanup of the last run, then the effect
PDSetPluginId(pluginId) ==
  /\ pd_mounted
  /\ pluginId # pd_pluginId
  /\ pluginId = "" \/ Len(pd_fetches) < MaxFetches
  /\ pd_pluginId' = pluginId
  /\ PDEffect(pluginId, Superseded(PDCleanup(pd_fetches)))
  /\ pd_calls' = Superseded(pd_calls)
  /\ UNCHANGED <<pd_plugin, pd_updating, pd_mounted>>

PDUnmount ==
  /\ pd_mounted
  /\ pd_mounted' = FALSE
  /\ pd_fetches' = Superseded(PDCleanup(pd_fetches))
  /\ pd_calls' = Superseded(pd_calls)
  /\ UNCHANGED <<pd_pluginId, pd_state>>

\* fetchPlugin: plugins.find(p => p.id === pluginId) || null, or what it throws
FetchPlugin(pluginId, resp) ==
  LET all == FetchPlugins(resp)
      at == FindIndex(all.value, pluginId)
  IN [ok |-> all.ok, message |-> all.message,
      value |-> IF all.ok /\ at > 0 THEN all.value[at] ELSE NoPlugin]

\* a then-handler that reports a missing plugin as a failed request
PDLoadThenConflated(f, data) ==
  IF f.cancelled THEN UNCHANGED <<pd_plugin, pd_error, pd_loading>>
  ELSE /\ IF data # NoPlugin
          THEN pd_plugin' = data /\ UNCHANGED pd_error
          ELSE pd_error' = "Failed to fetch plugins: " /\ UNCHANGED pd_plugin
       /\ pd_loading' = FALSE

\* .then(data => { if (!cancelled) { data ? setPlugin(data) : setError(...);
\*                                   setLoading(false) } })
PDLoadThen(f, data) ==
  IF f.cancelled THEN UNCHANGED <<pd_plugin, pd_error, pd_loading>>
  ELSE /\ IF data # NoPlugin
          THEN pd_plugin' = data /\ UNCHANGED pd_error
          ELSE pd_error' = "Plugin not found: " \o f.pluginId /\ UNCHANGED pd_plugin
       /\ pd_loading' = FALSE

\* .catch(err => { if (!cancelled) { setError(err.message); setLoading(false) } })
PDLoadCatch(f, message) ==
  IF f.cancelled THEN UNCHANGED <<pd_plugin, pd_error, pd_loading>>
  ELSE /\ pd_error' = message
       /\ pd_loading' = FALSE
       /\ UNCHANGED pd_plugin

PDLoadResolved(i, resp) ==
  /\ i \in 1..Len(pd_fetches)
  /\ FetchPlugin(pd_fetches[i].pluginId, resp).ok
  /\ PDLoadThen(pd_fetches[i], FetchPlugin(pd_fetches[i].pluginId, resp).value)
  /\ pd_fetches' = RemoveAt(pd_fetches, i)
  /\ UNCHANGED <<pd_pluginId, pd_updating, pd_iconError, pd_mounted, pd_calls>>

PDLoadRejected(i, resp) ==
  /\ i \in 1..Len(pd_fetches)
  /\ ~FetchPlugin(pd_fetches[i].pluginId, resp).ok
  /\ PDLoadCatch(pd_fetches[i], FetchPlugin(pd_fetches[i].pluginId, resp).message)
  /\ pd_fetches' = RemoveAt(pd_fetches, i)
  /\ UNCHANGED <<pd_pluginId, pd_updating, pd_iconError, pd_mounted, pd_calls>>

\* ---- the render of PluginDetail
\* if (loading) ...; if (error || !plugin) ...; else the plugin's page
PDView ==
  IF pd_loading THEN "loading"
  ELSE IF Truthy(pd_error) \/ pd_plugin = NoPlugin THEN "error"
  ELSE "ready"

\* ---- handleToggle of PluginDetail
\* An invocation awaiting its write: the plugin of the closure, newEnabled,
\* and whether the effect has been cleaned up since the click.
PDCall(plugin) == [plugin |-> plugin, newEnabled |-> ~plugin.enabled, stale |-> FALSE]

\* onClick of the button (disabled={updating}), up to the await
PDHandleToggle ==
  /\ pd_mounted
  /\ PDView = "ready"
  /\ ~pd_updating
  /\ pd_plugin # NoPlugin
  /\ pd_updating' = TRUE
  /\ pd_calls' = Append(pd_calls, PDCall(pd_plugin))
  /\ UNCHANGED <<pd_pluginId, pd_plugin, pd_loading, pd_error, pd_iconError,
                 pd_mounted, pd_fetches>>

\* setPlugin({ ...plugin, enabled: newEnabled })
PDCommit(shown, c) == [c.plugin EXCEPT !.enabled = c.newEnabled]

\* the awaited write resolves: setPlugin, then finally { setUpdating(false) }
PDWriteResolved(i) ==
  /\ i \in 1..Len(pd_calls)
  /\ pd_plugin' = PDCommit(pd_plugin, pd_calls[i])
  /\ pd_updating' = FALSE
  /\ pd_calls' = RemoveAt(pd_calls, i)
  /\ UNCHANGED <<pd_pluginId, pd_loading, pd_error, pd_iconError, pd_mounted,
                 pd_fetches>>

\* the awaited write throws: console.error, then finally { setUpdating(false) }
PDWriteRejected(i) ==
  /\ i \in 1..Len(pd_calls)
  /\ pd_updating' = FALSE
  /\ pd_calls' = RemoveAt(pd_calls, i)
  /\ UNCHANGED <<pd_pluginId, pd_plugin, pd_loading, pd_error, pd_iconError,
                 pd_mounted, pd_fetches>>

\* ============================================================ the system
\* Observations kept beside the program's state; no handler reads them.
VARIABLES
  h_response,   \* the response the list request of PluginBrowser or PluginGrid settled with
  h_late,       \* the component whose cleaned-up request the last step settled, or "none"
  h_pre,        \* for each write in flight, its record's enabled when handleToggle was called
  h_lastPre,    \* that value for the invocation the last step settled
  h_ok,         \* per id, the last write that succeeded: its value, and the other
                \* ids with a write in flight since it settled
  h_op,         \* the handler the last step ran and its argument, NoOp otherwise
  h_want        \* per id, the value the write issued last asked for; whether a
                \* write has failed

h_vars == <<h_response, h_late, h_pre, h_lastPre, h_ok, h_op, h_want>>

NoResponse == [kind |-> "none", text |-> "", hasPlugins |-> FALSE, plugins |-> <<>>]
NoWrite == [done |-> FALSE, value |-> FALSE, with |-> {}]
Op(op, arg) == [op |-> op, arg |-> arg]
NoOp == Op("none", "")
NoWant == [last |-> [id \in Ids |-> "none"], failed |-> FALSE]

HInit ==
  /\ h_response = NoResponse
  /\ h_late = "none"
  /\ h_pre = EmptyBag
  /\ h_lastPre = FALSE
  /\ h_ok = [id \in Ids |-> NoWrite]
  /\ h_op = NoOp
  /\ h_want = NoWant

vars == <<pb_vars, pg_vars, pd_vars, h_vars>>

\* ---- PluginBrowser from its mount on, the list served in pool order.  Icon
\* errors and open events are left out: handleIconError writes only
\* iconErrors and handleOpen writes no cell, no other handler reads either,
\* and Enter on a selection moves nothing.
Init == PBInit /\ PGIdle /\ PDIdle /\ HInit

PBOnly == UNCHANGED <<pg_vars, pd_vars, h_vars>>

PBLoadOk == (\E resp \in PlainResponses : PBLoadResolved(resp)) /\ PBOnly
PBLoadFail == (\E resp \in PlainResponses : PBLoadRejected(resp)) /\ PBOnly
PBLeave == PBUnmount /\ PBOnly
PBSelect == (\E i \in 1..MaxPlugins : PBHandleSelect(i)) /\ PBOnly
PBSwitch == (\E mode \in ViewModes : PBSetViewMode(mode)) /\ PBOnly
PBClose == PBCloseDetail /\ PBOnly
PBCheckbox == (\E i \in 1..MaxPlugins : PBToggleCheckbox(i)) /\ PBOnly
PBPanel == PBTogglePanel /\ PBOnly
PBResolved == (\E c \in BagToSet(pb_calls) : PBWriteResolved(c)) /\ PBOnly
PBRejected == (\E c \in BagToSet(pb_calls) : PBWriteRejected(c)) /\ PBOnly
PBKey == (\E key \in Keys \ {"Enter"} : PBHandleKeyDown(key)) /\ PBOnly

Next ==
  \/ PBLoadOk
  \/ PBLoadFail
  \/ PBLeave
  \/ PBSelect
  \/ PBSwitch
  \/ PBClose
  \/ PBCheckbox
  \/ PBPanel
  \/ PBResolved
  \/ PBRejected
  \/ PBKey

Spec == Init /\ [][Next]_vars

\* ---- The same steps of PluginBrowser, observed: each write in flight is
\* paired with its record's enabled of the moment handleToggle was called, and
\* each id with its last successful write.  Writes that are equal as calls are
\* interchangeable, so a settling call takes any of its pairs.
Issued == CHOOSE c \in BagToSet(pb_calls') : CopiesIn(c, pb_calls') > CopiesIn(c, pb_calls)
Paired(c, pre) == [call |-> c, pre |-> pre]
PreCall(c) == pb_plugins[FindIndex(pb_plugins, c.plugin.id)].enabled

ObservePre ==
  IF pb_last'.status # "none"
  THEN \E h \in BagToSet(h_pre) :
         /\ h.call = pb_last'.call
         /\ h_pre' = h_pre (-) SetToBag({h})
         /\ h_lastPre' = h.pre
  ELSE /\ h_lastPre' = FALSE
       /\ h_pre' = IF pb_calls' = pb_calls THEN h_pre
                   ELSE h_pre (+) SetToBag({Paired(Issued, PreCall(Issued))})

ObserveOk ==
  h_ok' = [id \in Ids |->
             IF pb_last'.status = "ok" /\ pb_last'.call.plugin.id = id
             THEN [done |-> TRUE, value |-> pb_last'.call.newEnabled,
                   with |-> {c.plugin.id : c \in BagToSet(pb_calls')} \ {id}]
             ELSE [h_ok[id] EXCEPT !.with = @ \cap InFlight]]

Observed ==
  ObservePre /\ ObserveOk /\ UNCHANGED <<pg_vars, pd_vars, h_response, h_late, h_op, h_want>>

ObLoadOk == (\E resp \in PlainResponses : PBLoadResolved(resp)) /\ Observed
ObLoadFail == (\E resp \in PlainResponses : PBLoadRejected(resp)) /\ Observed
ObLeave == PBUnmount /\ Observed
ObSelect == (\E i \in 1..MaxPlugins : PBHandleSelect(i)) /\ Observed
ObSwitch == (\E mode \in ViewModes : PBSetViewMode(mode)) /\ Observed
ObClose == PBCloseDetail /\ Observed
ObCheckbox == (\E i \in 1..MaxPlugins : PBToggleCheckbox(i)) /\ Observed
ObPanel == PBTogglePanel /\ Observed
ObResolved == (\E c \in BagToSet(pb_calls) : PBWriteResolved(c)) /\ Observed
ObRejected == (\E c \in BagToSet(pb_calls) : PBWriteRejected(c)) /\ Observed

NextObserved ==
  \/ ObLoadOk
  \/ ObLoadFail
  \/ ObLeave
  \/ ObSelect
  \/ ObSwitch
  \/ ObClose
  \/ ObCheckbox
  \/ ObPanel
  \/ ObResolved
  \/ ObRejected

SpecObserved == Init /\ [][NextObserved]_vars

\* ---- The load alone, for each component in turn: one of the three is
\* mounted, the list request comes back with any response (any order, any
\* names), and the component may unmount before or after.
LoadInit ==
  /\ HInit
  /\ \/ PBInit /\ PGIdle /\ PDIdle
     \/ PBIdle /\ PGInit /\ PDIdle
     \/ PBIdle /\ PGIdle /\ PDInit

BrowserOnly == UNCHANGED <<pg_vars, pd_vars, h_pre, h_lastPre, h_ok, h_want, h_op>>
GridOnly == UNCHANGED <<pb_vars, pd_vars, h_pre, h_lastPre, h_ok, h_want, h_op>>
DetailOnly == UNCHANGED <<pb_vars, pg_vars, h_pre, h_lastPre, h_ok, h_want, h_op, h_response>>

LdBrowserOk ==
  /\ \E resp \in AllResponses : PBLoadResolved(resp) /\ h_response' = resp
  /\ h_late' = IF pb_mounted THEN "none" ELSE "browser"
  /\ BrowserOnly
LdBrowserFail ==
  /\ \E resp \in AllResponses : PBLoadRejected(resp) /\ h_response' = resp
  /\ h_late' = IF pb_mounted THEN "none" ELSE "browser"
  /\ BrowserOnly
LdBrowserLeave == PBUnmount /\ h_late' = "none" /\ UNCHANGED h_response /\ BrowserOnly

LdGridOk ==
  /\ \E resp \in AllResponses : PGLoadResolved(resp) /\ h_response' = resp
  /\ h_late' = IF pg_mounted THEN "none" ELSE "grid"
  /\ GridOnly
LdGridFail ==
  /\ \E resp \in AllResponses : PGLoadRejected(resp) /\ h_response' = resp
  /\ h_late' = IF pg_mounted THEN "none" ELSE "grid"
  /\ GridOnly
LdGridLeave == PGUnmount /\ h_late' = "none" /\ UNCHANGED h_response /\ GridOnly

LdDetailId == (\E id \in DetailIds : PDSetPluginId(id)) /\ h_late' = "none" /\ DetailOnly
LdDetailOk ==
  /\ \E i \in 1..MaxFetches :
       /\ \E resp \in AllResponses : PDLoadResolved(i, resp)
       /\ h_late' = IF pd_fetches[i].stale THEN "detail" ELSE "none"
  /\ DetailOnly
LdDetailFail ==
  /\ \E i \in 1..MaxFetches :
       /\ \E resp \in AllResponses : PDLoadRejected(i, resp)
       /\ h_late' = IF pd_fetches[i].stale THEN "detail" ELSE "none"
  /\ DetailOnly
LdDetailLeave == PDUnmount /\ h_late' = "none" /\ DetailOnly

NextLoad ==
  \/ LdBrowserOk
  \/ LdBrowserFail
  \/ LdBrowserLeave
  \/ LdGridOk
  \/ LdGridFail
  \/ LdGridLeave
  \/ LdDetailId
  \/ LdDetailOk
  \/ LdDetailFail
  \/ LdDetailLeave

SpecLoad == LoadInit /\ [][NextLoad]_vars

\* ---- Selection and keyboard navigation, for PluginBrowser and PluginGrid in
\* turn, over lists long enough to fill more than one row of six.  The step's
\* handler and argument are observed in h_op.  Toggles, icon errors and double
\* clicks of PluginBrowser are left out: none of them reads or writes
\* selectedId, viewMode or detailPlugin's id.
MaxItems == 8       \* plugins of the list in the navigation runs

NavPool == <<"n1", "n2", "n3", "n4", "n5", "n6", "n7", "n8", "n9", "n10", "n11", "n12">>
NavList(n) == [i \in 1..n |-> Plugin(NavPool[i], <<"a">>, FALSE)]
NavResponses == {Body(TRUE, NavList(n)) : n \in 0..MaxItems}

NavInit ==
  /\ HInit
  /\ \/ PBInit /\ PGIdle /\ PDIdle
     \/ PBIdle /\ PGInit /\ PDIdle

NavBrowser == UNCHANGED <<pg_vars, pd_vars, h_response, h_late, h_pre, h_lastPre, h_ok, h_want>>
NavGrid == UNCHANGED <<pb_vars, pd_vars, h_response, h_late, h_pre, h_lastPre, h_ok, h_want>>
\* a key press, with the id the panel was bound to when the key went down
KeyOp(key, throws) ==
  [op |-> IF throws THEN "threw" ELSE "key", arg |-> key, panel |-> pb_detailPlugin.id]

NvBrowserLoad ==
  /\ \E resp \in NavResponses : PBLoadResolved(resp)
  /\ h_op' = Op("load", "")
  /\ NavBrowser
NvBrowserSelect ==
  /\ \E i \in 1..MaxItems : PBHandleSelect(i) /\ h_op' = Op("select", pb_plugins[i].id)
  /\ NavBrowser
NvBrowserSwitch ==
  /\ \E mode \in ViewModes : PBSetViewMode(mode) /\ h_op' = Op("view", mode)
  /\ NavBrowser
NvBrowserClose == PBCloseDetail /\ h_op' = Op("close", "") /\ NavBrowser
NvBrowserKey ==
  /\ \E key \in Keys :
       PBHandleKeyDown(key) /\ h_op' = KeyOp(key, PBKeyThrows(key))
  /\ NavBrowser

NvGridLoad ==
  /\ \E resp \in NavResponses : PGLoadResolved(resp)
  /\ h_op' = Op("load", "")
  /\ NavGrid
NvGridClick ==
  /\ \E i \in 1..MaxItems : PGHandleClick(i) /\ h_op' = Op("select", pg_plugins[i].id)
  /\ NavGrid
NvGridDoubleClick ==
  /\ \E i \in 1..MaxItems : PGHandleDoubleClick(i) /\ h_op' = Op("open", pg_plugins[i].id)
  /\ NavGrid
NvGridKey ==
  /\ \E key \in Keys : PGHandleKeyDown(key) /\ h_op' = KeyOp(key, PGKeyThrows(key))
  /\ NavGrid

NextNav ==
  \/ NvBrowserLoad
  \/ NvBrowserSelect
  \/ NvBrowserSwitch
  \/ NvBrowserClose
  \/ NvBrowserKey
  \/ NvGridLoad
  \/ NvGridClick
  \/ NvGridDoubleClick
  \/ NvGridKey

SpecNav == NavInit /\ [][NextNav]_vars

\* ---- Every handler of PluginBrowser once its list is loaded: clicks,
\* double clicks, the view switcher, the panel's Close button, every key, the
\* toggles and the settling of their writes, each step's handler observed in
\* h_op.
MaxPending == 1     \* writes in flight when a toggle is clicked in these runs

OpLoad ==
  /\ \E resp \in PlainResponses : PBLoadResolved(resp)
  /\ h_op' = Op("load", "")
  /\ NavBrowser
OpSelect ==
  /\ \E i \in 1..MaxPlugins : PBHandleSelect(i) /\ h_op' = Op("select", pb_plugins[i].id)
  /\ NavBrowser
OpOpen ==
  /\ \E i \in 1..MaxPlugins : PBHandleOpen(i) /\ h_op' = Op("open", pb_plugins[i].id)
  /\ NavBrowser
OpSwitch ==
  /\ \E mode \in ViewModes : PBSetViewMode(mode) /\ h_op' = Op("view", mode)
  /\ NavBrowser
OpClose == PBCloseDetail /\ h_op' = Op("close", "") /\ NavBrowser
OpKey ==
  /\ \E key \in Keys : PBHandleKeyDown(key) /\ h_op' = KeyOp(key, PBKeyThrows(key))
  /\ NavBrowser
OpCheckbox ==
  /\ BagCardinality(pb_calls) < MaxPending
  /\ \E i \in 1..MaxPlugins : PBToggleCheckbox(i) /\ h_op' = Op("toggle", pb_plugins[i].id)
  /\ NavBrowser
OpPanel ==
  /\ BagCardinality(pb_calls) < MaxPending
  /\ PBTogglePanel
  /\ h_op' = Op("toggle", pb_detailPlugin.id)
  /\ NavBrowser
OpResolved ==
  /\ \E c \in BagToSet(pb_calls) : PBWriteResolved(c)
  /\ h_op' = Op("settled", "")
  /\ NavBrowser
OpRejected ==
  /\ \E c \in BagToSet(pb_calls) : PBWriteRejected(c)
  /\ h_op' = Op("settled", "")
  /\ NavBrowser

NextOps ==
  \/ OpLoad
  \/ OpSelect
  \/ OpOpen
  \/ OpSwitch
  \/ OpClose
  \/ OpKey
  \/ OpCheckbox
  \/ OpPanel
  \/ OpResolved
  \/ OpRejected

SpecOps == Init /\ [][NextOps]_vars

\* ---- PluginDetail from its mount on: changes of the pluginId prop, the
\* settling of its list requests, the toggle and the settling of its write,
\* the unmount.  h_op tells how the step's request settled: for the component
\* as it is now, or late, for a run of the effect already cleaned up.
DetailAlone == UNCHANGED <<pb_vars, pg_vars, h_response, h_late, h_pre, h_lastPre, h_ok, h_want>>

DetailInit == PBIdle /\ PGIdle /\ PDInit /\ HInit

DtSetId ==
  /\ \E id \in DetailIds : PDSetPluginId(id) /\ h_op' = Op("id", id)
  /\ DetailAlone
DtLoadOk ==
  /\ \E i \in 1..MaxFetches : \E resp \in PlainResponses :
       /\ PDLoadResolved(i, resp)
       /\ h_op' = Op(IF pd_fetches[i].cancelled THEN "late"
                     ELSE IF FetchPlugin(pd_fetches[i].pluginId, resp).value = NoPlugin
                          THEN "missing" ELSE "found",
                     pd_fetches[i].pluginId)
  /\ DetailAlone
DtLoadFail ==
  /\ \E i \in 1..MaxFetches : \E resp \in PlainResponses :
       /\ PDLoadRejected(i, resp)
       /\ h_op' = Op(IF pd_fetches[i].cancelled THEN "late" ELSE "failed",
                     pd_fetches[i].pluginId)
  /\ DetailAlone
DtToggle == PDHandleToggle /\ h_op' = Op("toggle", pd_plugin.id) /\ DetailAlone
DtResolved ==
  /\ \E i \in 1..Len(pd_calls) :
       /\ PDWriteResolved(i)
       /\ h_op' = Op(IF pd_calls[i].stale THEN "lateWrite" ELSE "written",
                     pd_calls[i].plugin.id)
  /\ DetailAlone
DtRejected ==
  /\ \E i \in 1..Len(pd_calls) :
       /\ PDWriteRejected(i)
       /\ h_op' = Op(IF pd_calls[i].stale THEN "lateWrite" ELSE "written",
                     pd_calls[i].plugin.id)
  /\ DetailAlone
DtLeave == PDUnmount /\ h_op' = Op("unmount", "") /\ DetailAlone

NextDetail ==
  \/ DtSetId
  \/ DtLoadOk
  \/ DtLoadFail
  \/ DtToggle
  \/ DtResolved
  \/ DtRejected
  \/ DtLeave

SpecDetail == DetailInit /\ [][NextDetail]_vars

\* ---- Icon failures among the other operations, for PluginBrowser and
\* PluginGrid in turn.  h_op names the id whose icon failed in the step.
\* A toggle is clicked when no write is pending in these runs.
Other == Op("other", "")

IcBrowserLoad ==
  /\ \E resp \in PlainResponses : PBLoadResolved(resp)
  /\ h_op' = Other
  /\ NavBrowser
IcBrowserIcon ==
  /\ \E id \in Ids : PBHandleIconError(id) /\ h_op' = Op("icon", id)
  /\ NavBrowser
IcBrowserSelect == (\E i \in 1..MaxPlugins : PBHandleSelect(i)) /\ h_op' = Other /\ NavBrowser
IcBrowserOpen == (\E i \in 1..MaxPlugins : PBHandleOpen(i)) /\ h_op' = Other /\ NavBrowser
IcBrowserSwitch == (\E mode \in ViewModes : PBSetViewMode(mode)) /\ h_op' = Other /\ NavBrowser
IcBrowserClose == PBCloseDetail /\ h_op' = Other /\ NavBrowser
IcBrowserKey == (\E key \in Keys : PBHandleKeyDown(key)) /\ h_op' = Other /\ NavBrowser
IcBrowserCheckbox ==
  /\ pb_calls = EmptyBag
  /\ \E i \in 1..MaxPlugins : PBToggleCheckbox(i)
  /\ h_op' = Other
  /\ NavBrowser
IcBrowserPanel ==
  /\ pb_calls = EmptyBag
  /\ PBTogglePanel
  /\ h_op' = Other
  /\ NavBrowser
IcBrowserResolved ==
  /\ \E c \in BagToSet(pb_calls) : PBWriteResolved(c)
  /\ h_op' = Other
  /\ NavBrowser
IcBrowserRejected ==
  /\ \E c \in BagToSet(pb_calls) : PBWriteRejected(c)
  /\ h_op' = Other
  /\ NavBrowser

IcGridLoad ==
  /\ \E resp \in PlainResponses : PGLoadResolved(resp)
  /\ h_op' = Other
  /\ NavGrid
IcGridIcon ==
  /\ \E id \in Ids : PGHandleIconError(id) /\ h_op' = Op("icon", id)
  /\ NavGrid
IcGridClick == (\E i \in 1..MaxPlugins : PGHandleClick(i)) /\ h_op' = Other /\ NavGrid
IcGridDoubleClick == (\E i \in 1..MaxPlugins : PGHandleDoubleClick(i)) /\ h_op' = Other /\ NavGrid
IcGridKey == (\E key \in Keys : PGHandleKeyDown(key)) /\ h_op' = Other /\ NavGrid

NextIcons ==
  \/ IcBrowserLoad
  \/ IcBrowserIcon
  \/ IcBrowserSelect
  \/ IcBrowserOpen
  \/ IcBrowserSwitch
  \/ IcBrowserClose
  \/ IcBrowserKey
  \/ IcBrowserCheckbox
  \/ IcBrowserPanel
  \/ IcBrowserResolved
  \/ IcBrowserRejected
  \/ IcGridLoad
  \/ IcGridIcon
  \/ IcGridClick
  \/ IcGridDoubleClick
  \/ IcGridKey

SpecIcons == NavInit /\ [][NextIcons]_vars

\* ---- Toggles of PluginBrowser against a server that applies the writes in
\* the order they were issued: h_want keeps, per id, what the last write
\* issued asked for, and whether any write failed.
Wanted(c) == IF c.newEnabled THEN "on" ELSE "off"
Sent == h_want' = [h_want EXCEPT !.last[Issued.plugin.id] = Wanted(Issued)]
Server == UNCHANGED <<pg_vars, pd_vars, h_response, h_late, h_pre, h_lastPre, h_ok, h_op>>

SvLoad ==
  /\ \E resp \in PlainResponses : PBLoadResolved(resp)
  /\ UNCHANGED h_want
  /\ Server
SvSelect == (\E i \in 1..MaxPlugins : PBHandleSelect(i)) /\ UNCHANGED h_want /\ Server
SvCheckbox == (\E i \in 1..MaxPlugins : PBToggleCheckbox(i)) /\ Sent /\ Server
SvPanel == PBTogglePanel /\ Sent /\ Server
SvResolved ==
  /\ \E c \in BagToSet(pb_calls) : PBWriteResolved(c)
  /\ UNCHANGED h_want
  /\ Server
SvRejected ==
  /\ \E c \in BagToSet(pb_calls) : PBWriteRejected(c)
  /\ h_want' = [h_want EXCEPT !.failed = TRUE]
  /\ Server

NextServer ==
  \/ SvLoad
  \/ SvSelect
  \/ SvCheckbox
  \/ SvPanel
  \/ SvResolved
  \/ SvRejected

ServerInit == Init /\ pb_viewMode = "details"

SpecServer == ServerInit /\ [][NextServer]_vars

\* ============================================================== claims
EnabledOf(ps, id) == ps[FindIndex(ps, id)].enabled
Holds(ps, id) == FindIndex(ps, id) > 0
SettledId == pb_last.call.plugin.id

\* C1: at most one enable/disable write is in flight for any plugin id at any
\* instant, whatever toggles on other ids start or complete in between.
C1_OneWritePerId == \A id \in Ids : WritesFor(id) <= 1

\* C2: two overlapping writes on distinct ids X and Y that both succeed, in
\* either response order: when the second (of Y) settles, Y's record holds
\* the value that write requested and X's record holds the value X's write
\* requested; neither commit overwrote or lost the other.
C2_OverlapIndependent ==
  pb_last.status = "ok" =>
    \A X \in Ids \ {SettledId} :
      (h_ok[X].done /\ SettledId \in h_ok[X].with) =>
        /\ EnabledOf(pb_plugins, SettledId) = pb_last.call.newEnabled
        /\ EnabledOf(pb_plugins, X) = h_ok[X].value

C2_Witness ==
  /\ pb_last.status = "ok"
  /\ \E X \in Ids \ {SettledId} :
       /\ h_ok[X].done
       /\ SettledId \in h_ok[X].with
       /\ h_ok[X].value # pb_last.call.newEnabled

\* C3: when the write of a toggle of X succeeds, X's record has enabled =
\* desired, X is not marked updating, and no list request has been issued or
\* is pending beyond the one of the mount.
C3_SuccessCommits ==
  pb_last.status = "ok" =>
    /\ Holds(pb_plugins, SettledId)
    /\ EnabledOf(pb_plugins, SettledId) = pb_last.call.newEnabled
    /\ pb_updating # SettledId
    /\ pb_loads = 1
    /\ pb_fetch = "resolved"

C3_Witness ==
  /\ pb_last.status = "ok"
  /\ pb_last.call.newEnabled
  /\ Len(pb_plugins) = MaxPlugins

\* C4: when the write of a toggle of X fails, X's record has the enabled
\* value it had when handleToggle was called, X is not marked updating, no
\* list request has been issued, and the view is ready with no error message.
C4_FailureKeepsPreCall ==
  pb_last.status = "failed" =>
    /\ EnabledOf(pb_plugins, SettledId) = h_lastPre
    /\ pb_updating # SettledId
    /\ pb_loads = 1
    /\ PBView = "ready"
    /\ pb_error = Null

\* C5: a settled toggle of X changes at most the enabled field of X; every
\* other record is as it was, and from the load on the sequence of ids (its
\* members and their order) never changes.
C5_ToggleFrame ==
  [][/\ pb_fetch # "pending" => IdsOf(pb_plugins') = IdsOf(pb_plugins)
     /\ pb_last'.status # "none" =>
          \A i \in 1..Len(pb_plugins) :
            /\ pb_plugins'[i].name = pb_plugins[i].name
            /\ pb_plugins[i].id # pb_last'.call.plugin.id =>
                 pb_plugins'[i] = pb_plugins[i]]_vars

C5_Witness ==
  /\ pb_last.status = "ok"
  /\ Len(pb_plugins) = MaxPlugins
  /\ \E i \in 1..Len(pb_plugins) : pb_plugins[i].enabled # pb_last.call.newEnabled

\* C6: after a successful load the sequence PluginBrowser holds, and the one
\* PluginGrid holds, has exactly the records the list request returned, each
\* as often, in ascending order of their names compared without regard to
\* letter case (names equal but for case may come in either order).
ToLower(c) == CASE c = "A" -> "a" [] c = "B" -> "b" [] OTHER -> c
LowerCased(name) == [i \in 1..Len(name) |-> ToLower(name[i])]
AscendingNoCase(ps) ==
  \A i \in 1..(Len(ps) - 1) :
    CodeUnitCmp(LowerCased(ps[i].name), LowerCased(ps[i + 1].name)) <= 0
Occurrences(ps, x) == Cardinality({i \in 1..Len(ps) : ps[i] = x})
Permutation(ps, qs) ==
  /\ Len(ps) = Len(qs)
  /\ \A i \in 1..Len(qs) : Occurrences(ps, qs[i]) = Occurrences(qs, qs[i])
Returned == IF h_response.hasPlugins THEN h_response.plugins ELSE <<>>

C6_LoadedSorted ==
  /\ (pb_fetch = "resolved" /\ ~pb_loading) =>
       Permutation(pb_plugins, Returned) /\ AscendingNoCase(pb_plugins)
  /\ (pg_fetch = "resolved" /\ ~pg_loading) =>
       Permutation(pg_plugins, Returned) /\ AscendingNoCase(pg_plugins)

C6_Witness ==
  /\ pg_fetch = "resolved"
  /\ ~pg_loading
  /\ Len(pg_plugins) = MaxPlugins
  /\ pg_plugins # Returned
  /\ \E i \in 1..(Len(pg_plugins) - 1) :
       /\ pg_plugins[i].name # pg_plugins[i + 1].name
       /\ LowerCased(pg_plugins[i].name) = LowerCased(pg_plugins[i + 1].name)

\* C7: every toggle call ends in exactly one outcome.  A step that settles a
\* call removes that one call from those in flight and either writes its
\* value to its record (success) or leaves the plugin set as it was
\* (failure); no other step after the load writes the plugin set or ends a
\* call.
WithEnabled(ps, id, enabled) ==
  [i \in 1..Len(ps) |-> IF ps[i].id = id THEN [ps[i] EXCEPT !.enabled = enabled] ELSE ps[i]]

C7_OneOutcome ==
  [][IF pb_last'.status = "none"
     THEN /\ pb_fetch # "pending" => pb_plugins' = pb_plugins
          /\ pb_calls \sqsubseteq pb_calls'
     ELSE /\ BagIn(pb_last'.call, pb_calls)
          /\ pb_calls' = pb_calls (-) SetToBag({pb_last'.call})
          /\ pb_last'.status = "ok" =>
               pb_plugins' = WithEnabled(pb_plugins, pb_last'.call.plugin.id,
                                         pb_last'.call.newEnabled)
          /\ pb_last'.status = "failed" => pb_plugins' = pb_plugins]_vars

C7_Witness ==
  /\ pb_last.status = "failed"
  /\ pb_calls # EmptyBag
  /\ pb_selectedId # Null
  /\ pb_selectedId # SettledId

\* C8: when the list request of PluginBrowser fails while it is mounted, by
\* a transport error or a non-success status, the plugin set is empty and
\* the view is errored with the message of the error thrown; the set is
\* never non-empty unless the request succeeded.
ThrownMessage ==
  IF h_response.kind = "reject" THEN h_response.text
  ELSE "Failed to fetch plugins: " \o h_response.text

C8_LoadFailure ==
  /\ (pb_fetch = "rejected" /\ pb_mounted) =>
       /\ pb_plugins = <<>>
       /\ PBView = "errored"
       /\ pb_error = ThrownMessage
  /\ pb_plugins # <<>> => pb_fetch = "resolved"

C8_Witness ==
  /\ pb_fetch = "rejected"
  /\ pb_mounted
  /\ h_response = Status("")

\* C9: a list request that settles after its consumer was unmounted, or in
\* PluginDetail after the pluginId changed, with a result or with an error,
\* changes no state cell of the component: the view it would render, the
\* plugin or plugin set, the loading flag and the error stay as they were.
C9_LateResultDiscarded ==
  [][/\ (pb_fetch = "pending" /\ pb_fetch' # "pending" /\ ~pb_mounted) =>
          pb_state' = pb_state
     /\ (pg_fetch = "pending" /\ pg_fetch' # "pending" /\ ~pg_mounted) =>
          pg_state' = pg_state
     /\ \A i \in 1..Len(pd_fetches) :
          (pd_fetches' = RemoveAt(pd_fetches, i) /\ pd_fetches[i].stale) =>
            pd_state' = pd_state]_vars

C9_Witness ==
  /\ h_late = "detail"
  /\ pd_mounted
  /\ pd_fetches # <<>>

\* C10: within one activation the one list request of the mount is the only
\* one; when it settles uncancelled the view leaves loading, and it never
\* returns to loading; once errored the view stays errored with an empty set.
C10_OneLoad ==
  [][/\ pb_loads' = 1
     /\ pb_fetch # "pending" => pb_fetch' = pb_fetch
     /\ (pb_fetch = "pending" /\ pb_fetch' # "pending" /\ ~pb_cancelled) =>
          PBView' \in {"ready", "empty", "errored"}
     /\ ~pb_loading => ~pb_loading'
     /\ PBView = "errored" => (PBView' = "errored" /\ pb_plugins' = <<>>)]_vars

C10_Witness == PBView = "errored" /\ ~pb_mounted

\* C11: when the list request of PluginBrowser comes back with a success
\* status and a body without the plugins field, while it is mounted, the
\* plugin set is empty, no error is set, and the view is the empty view of
\* the ready branch, not the errored one.
MissingField == h_response.kind = "body" /\ ~h_response.hasPlugins

C11_MissingFieldIsEmpty ==
  (MissingField /\ pb_fetch # "pending" /\ pb_mounted) =>
    /\ pb_fetch = "resolved"
    /\ pb_plugins = <<>>
    /\ pb_error = Null
    /\ PBView = "empty"

C11_Witness == MissingField /\ pb_fetch = "resolved" /\ pb_mounted /\ ~pb_loading

\* C12: in every reachable state of PluginBrowser and of PluginGrid,
\* selectedId is null or the id of a record of the current plugin set.
Known(ps, id) == id = Null \/ \E i \in 1..Len(ps) : ps[i].id = id

C12_SelectionInSet == Known(pb_plugins, pb_selectedId) /\ Known(pg_plugins, pg_selectedId)

C12_Witness ==
  /\ h_op.op = "key"
  /\ pg_selectedId # Null
  /\ Len(pg_plugins) = MaxItems

\* C13: a key press never ends in an error, in either component, in any view
\* mode, with any columns >= 1 and any selection (null included): it leaves
\* the plugin set alone, and the selection afterwards is the id of a record
\* of the set or is what it was.
Moved(ps, old, new) == new = old \/ \E i \in 1..Len(ps) : ps[i].id = new

C13_MoveTotal ==
  [][h_op'.op \in {"key", "threw"} =>
       /\ h_op'.op = "key"
       /\ pb_plugins' = pb_plugins
       /\ pg_plugins' = pg_plugins
       /\ Moved(pb_plugins, pb_selectedId, pb_selectedId')
       /\ Moved(pg_plugins, pg_selectedId, pg_selectedId')]_vars

C13_Witness ==
  /\ h_op.op = "key" /\ h_op.arg = "ArrowDown"
  /\ pg_columns = GridColumns
  /\ Len(pg_plugins) = MaxItems
  /\ pg_selectedId = pg_plugins[MaxItems].id

\* C14: in grid mode (PluginBrowser's icons view with six columns, PluginGrid
\* with its columns prop), with idx the index of selectedId (0 if not found),
\* row = idx div columns and col = idx mod columns, the index selected after
\* a key is: left max(idx-1,0); right min(idx+1,n-1); up (row-1)*columns+col
\* if row > 0, else idx; down min((row+1)*columns+col, n-1) if row < rows-1,
\* else idx; home 0; end n-1.
Directions == {"ArrowLeft", "ArrowRight", "ArrowUp", "ArrowDown", "Home", "End"}
IndexOf(ps, id) ==
  IF \E i \in 1..Len(ps) : ps[i].id = id
  THEN (CHOOSE i \in 1..Len(ps) : ps[i].id = id) - 1
  ELSE 0
RowCount(n, columns) == CHOOSE r \in 0..n : r * columns >= n /\ (r - 1) * columns < n
GridMove(dir, idx, n, columns) ==
  LET row == idx \div columns
      col == idx % columns
      below == (row + 1) * columns + col
  IN IF dir = "ArrowLeft" THEN (IF idx - 1 > 0 THEN idx - 1 ELSE 0)
     ELSE IF dir = "ArrowRight" THEN (IF idx + 1 < n - 1 THEN idx + 1 ELSE n - 1)
     ELSE IF dir = "ArrowUp" THEN (IF row > 0 THEN (row - 1) * columns + col ELSE idx)
     ELSE IF dir = "ArrowDown"
          THEN (IF row < RowCount(n, columns) - 1
                THEN (IF below < n - 1 THEN below ELSE n - 1)
                ELSE idx)
     ELSE IF dir = "Home" THEN 0
     ELSE n - 1
Target(ps, id, dir, columns) == ps[GridMove(dir, IndexOf(ps, id), Len(ps), columns) + 1].id

C14_GridMove ==
  [][(h_op'.op = "key" /\ h_op'.arg \in Directions) =>
       /\ (pb_mounted /\ pb_viewMode = "icons") =>
            pb_selectedId' = Target(pb_plugins, pb_selectedId, h_op'.arg, 6)
       /\ pg_mounted =>
            pg_selectedId' = Target(pg_plugins, pg_selectedId, h_op'.arg, pg_columns)]_vars

C14_Witness ==
  /\ h_op.op = "key" /\ h_op.arg = "ArrowDown"
  /\ pb_viewMode = "icons"
  /\ Len(pb_plugins) = MaxItems
  /\ pb_selectedId = pb_plugins[MaxItems].id

\* C15: in PluginBrowser's list and details views, left and right leave
\* selectedId exactly as it was, for every prior selectedId, null included;
\* up selects index max(idx-1,0) and down selects index min(idx+1,n-1).
C15_ListMove ==
  [][(h_op'.op = "key" /\ pb_mounted /\ pb_viewMode \in {"list", "details"}) =>
       /\ h_op'.arg \in {"ArrowLeft", "ArrowRight"} => pb_selectedId' = pb_selectedId
       /\ h_op'.arg \in {"ArrowUp", "ArrowDown"} =>
            pb_selectedId' = Target(pb_plugins, pb_selectedId, h_op'.arg, 1)]_vars

\* C16: whenever the detail panel of PluginBrowser is open, the plugin it is
\* bound to is the selected one.
C16_PanelFollowsSelection ==
  pb_detailPlugin # NoPlugin => pb_detailPlugin.id = pb_selectedId

\* C17: whenever the panel of PluginBrowser is open on a plugin with no write
\* for it in flight, the enabled value of the panel's copy is the enabled
\* value of that plugin's record in the plugin set.
C17_PanelShowsRecord ==
  (pb_detailPlugin # NoPlugin /\ WritesFor(pb_detailPlugin.id) = 0) =>
    pb_detailPlugin.enabled = EnabledOf(pb_plugins, pb_detailPlugin.id)

\* C18: a click on a plugin sets selectedId to its id and leaves the panel
\* open on a copy equal to the plugin's current record; the plugin set, the
\* view mode and the updating mark are what they were.
C18_SelectFrame ==
  [][h_op'.op = "select" =>
       /\ pb_selectedId' = h_op'.arg
       /\ pb_detailPlugin' # NoPlugin
       /\ pb_detailPlugin' = pb_plugins'[FindIndex(pb_plugins', h_op'.arg)]
       /\ UNCHANGED <<pb_plugins, pb_viewMode, pb_updating>>]_vars

C18_Witness ==
  /\ h_op.op = "select"
  /\ pb_detailPlugin.enabled
  /\ pb_updating \notin {Null, pb_selectedId}

\* C19: a double click on a plugin, and Enter with a plugin selected, emit
\* exactly one open event, carrying that plugin's name and id, whether or not
\* the panel is open on it, and leave selectedId, the plugin set, the panel
\* and the updating mark as they were.
Activated ==
  IF h_op'.op = "open" THEN h_op'.arg
  ELSE IF h_op'.op = "key" /\ h_op'.arg = "Enter" THEN pb_selectedId
  ELSE Null

C19_OpenFrame ==
  [][Activated # Null =>
       /\ pb_opened' = <<[title |-> pb_plugins[FindIndex(pb_plugins, Activated)].name,
                          pluginId |-> Activated]>>
       /\ UNCHANGED <<pb_selectedId, pb_plugins, pb_detailPlugin, pb_updating>>]_vars

C19_Witness ==
  /\ h_op.op = "key" /\ h_op.arg = "Enter"
  /\ Len(pb_opened) = 1
  /\ pb_opened[1].pluginId = pb_detailPlugin.id
  /\ pb_updating # Null

\* C20: Escape pressed while the panel of PluginBrowser is open closes the
\* panel and leaves selectedId, the plugin set and the view mode as they were.
C20_EscapeCloses ==
  [][(h_op'.op = "key" /\ h_op'.arg = "Escape" /\ pb_detailPlugin # NoPlugin) =>
       /\ pb_detailPlugin' = NoPlugin
       /\ UNCHANGED <<pb_selectedId, pb_plugins, pb_viewMode>>]_vars

C20_Witness ==
  /\ h_op.op = "key" /\ h_op.arg = "Escape"
  /\ h_op.panel # Null
  /\ pb_detailPlugin = NoPlugin
  /\ pb_selectedId # Null

\* C21: a click on the view switcher changes only the view mode: selectedId,
\* the plugin set, the panel and the updating mark are what they were, for
\* every mode and every state, a pending toggle included.
C21_ViewModeFrame ==
  [][h_op'.op = "view" =>
       /\ pb_viewMode' = h_op'.arg
       /\ UNCHANGED <<pb_selectedId, pb_plugins, pb_detailPlugin, pb_updating,
                      pb_calls, pb_iconErrors, pb_loading, pb_error>>]_vars

C21_Witness ==
  /\ h_op = Op("view", "icons")
  /\ pb_calls # EmptyBag
  /\ pb_updating # Null
  /\ pb_detailPlugin # NoPlugin

\* C22: in PluginDetail a list request that succeeds with no plugin of the
\* requested id ends in the error "Plugin not found: <id>", which no failed
\* request produces; a failed request ends in its own message, never in a
\* not-found one.
NotFoundMessages == {"Plugin not found: " \o id : id \in DetailIds}
FailureMessages == {FetchPlugins(resp).message : resp \in Failures}

C22_NotFoundDistinct ==
  [][/\ h_op'.op = "missing" =>
          /\ pd_error' = "Plugin not found: " \o h_op'.arg
          /\ pd_error' \notin FailureMessages
          /\ ~pd_loading'
          /\ PDView' = "error"
     /\ h_op'.op = "failed" =>
          /\ pd_error' \in FailureMessages
          /\ pd_error' \notin NotFoundMessages
          /\ ~pd_loading']_vars

C22_Witness ==
  /\ h_op = Op("missing", UnknownId)
  /\ pd_mounted
  /\ pd_error = "Plugin not found: p0"

\* C23: in every state of PluginBrowser each id with a write in flight is
\* marked updating (its controls are disabled): the mark of an id is not
\* taken away by the start or the end of a toggle of another id.
Marked(updating, id) == updating = id

C23_MarkPerId == \A id \in InFlight : Marked(pb_updating, id)

\* C24: in PluginDetail the response to a toggle write that arrives after the
\* effect under which it was issued has been cleaned up (the pluginId changed
\* or the component was unmounted) changes neither the plugin shown nor the
\* updating mark.
C24_LateWriteDiscarded ==
  [][h_op'.op = "lateWrite" => UNCHANGED <<pd_plugin, pd_updating>>]_vars

\* C26: whenever PluginDetail shows its ready view (not loading, no error),
\* the plugin shown is the one the pluginId prop names.
C26_ReadyShowsRequested ==
  (pd_mounted /\ PDView = "ready") => pd_plugin.id = pd_pluginId

C27_ResponseKeepsBinding ==
  [][h_op'.op = "settled" => pb_detailPlugin'.id = pb_detailPlugin.id]_vars

\* C28: every write PluginBrowser issues for an id, from a checkbox of the
\* table or from the panel's button, asks for the negation of the enabled
\* value the id's record in the plugin set has at that moment, under the
\* action name enable_plugin exactly when it asks for true.
C28_WriteNegatesRecord ==
  [][h_op'.op = "toggle" =>
       /\ Issued.plugin.id = h_op'.arg
       /\ Issued.newEnabled = ~EnabledOf(pb_plugins, h_op'.arg)
       /\ (ActionName(Issued.newEnabled) = "enable_plugin") <=> Issued.newEnabled]_vars

\* C29: whenever no write of PluginBrowser is in flight and no write has
\* failed, the enabled value of each plugin that was toggled is the value the
\* write issued last for its id asked for.
C29_Converges ==
  (pb_calls = EmptyBag /\ ~h_want.failed) =>
    \A i \in 1..Len(pb_plugins) :
      h_want.last[pb_plugins[i].id] # "none" =>
        pb_plugins[i].enabled = (h_want.last[pb_plugins[i].id] = "on")

\* C30: Enter and Escape leave selectedId as it was, in PluginBrowser and in
\* PluginGrid; with nothing selected Enter emits no open event and selectedId
\* stays null.
C30_EnterEscapeKeepSelection ==
  [][(h_op'.op = "key" /\ h_op'.arg \in {"Enter", "Escape"}) =>
       /\ pb_selectedId' = pb_selectedId
       /\ pg_selectedId' = pg_selectedId
       /\ (pb_mounted /\ pb_selectedId = Null) => pb_opened' = <<>>
       /\ (pg_mounted /\ pg_selectedId = Null) =>
            \A k \in 1..Len(pg_out') : pg_out'[k].cb # "onOpen"]_vars
====
